---- MODULE Spec2Model ----
(***************************************************************************)
(* Model of virtual_drum.py: zone layout (draw_zones, find_zone), the      *)
(* per-finger tap detection of main's frame loop, and the fading of the    *)
(* tap visuals.                                                            *)
(*                                                                         *)
(* Units.  Time is counted in ticks of 0.025 s, so COOLDOWN = 0.25 s is 10 *)
(* ticks and the pulse lifetime 0.3 s is 12 ticks.  Normalised landmark    *)
(* coordinates are counted in thousandths, so TAP_THRESHOLD = 0.045 is 45. *)
(* Every call of time.time() is a separate read of the clock; the clock    *)
(* never runs backwards.                                                   *)
(***************************************************************************)
EXTENDS Integers, Sequences, FiniteSets

VARIABLES
    clock,              \* value returned by the latest time.time() call
    prev_finger_y,      \* main: prev_finger_y
    last_trigger_time,  \* main: last_trigger_time
    active_visuals,     \* main: active_visuals
    zone_names,         \* main: zone_names (argument of draw_zones)
    width, height,      \* frame.shape
    zones,              \* result of draw_zones
    pc,                 \* position in main's loop
    idx,                \* position of the finger loop in FINGER_TIP_IDS
    finger,             \* loop variable of the finger loop
    landmark,           \* hand_landmarks.landmark[tip_id]
    x_pixel, y_pixel,   \* int(landmark.x * width), int(landmark.y * height)
    zone_name,          \* find_zone(zones, x_pixel)
    delta_y, recent,    \* locals of the loop body
    played,             \* whether sounds[finger].play() ran in this iteration
    seen,               \* fingers for which a sample has been processed
    now,                \* main: now (read before fading)
    radii,              \* the radius drawn for each element of active_visuals
    retired             \* history: the visuals the filter has dropped so far

vars == <<clock, prev_finger_y, last_trigger_time, active_visuals, zone_names,
          width, height, zones, pc, idx, finger, landmark, x_pixel, y_pixel,
          zone_name, delta_y, recent, played, seen, now, radii, retired>>

None == "None"

-----------------------------------------------------------------------------
(* Program constants *)

TAP_THRESHOLD == 45
COOLDOWN == 10
PULSE_LIFETIME == 12
MAX_RADIUS == 30
LandmarkScale == 1000

FINGER_TIP_IDS == <<"thumb", "index", "middle", "ring", "pinky">>

ZONE_NAMES == <<"Kick", "Snare", "HiHat", "Tom", "Clap">>

-----------------------------------------------------------------------------
(* Bounds of the model *)

NumFingers == 2         \* fingers of FINGER_TIP_IDS that are tracked
MaxTime == 24           \* Spec: the clock is not read beyond this value
MaxStallTime == 33      \* SpecStall: the clock is not read beyond this value
MaxWidth == 12          \* widths tried for draw_zones on its own

TrackedFingers == SubSeq(FINGER_TIP_IDS, 1, NumFingers)
Fingers == {TrackedFingers[i] : i \in 1..NumFingers}

\* By how much the clock may have advanced between two consecutive reads.
Ticks == {0, PULSE_LIFETIME \div 2, COOLDOWN, PULSE_LIFETIME}
StallTicks == {0, COOLDOWN + 1}
FrameShapes == {<<4, 13>>}                \* <<height, width>>
LandmarkXs == {250, 1000}                 \* landmark.x, thousandths
LandmarkYs == {100, 145, 160}             \* landmark.y, thousandths

-----------------------------------------------------------------------------
(* Pure helpers *)

\* Python int(n / d) for d > 0: truncation towards zero.
PyInt(n, d) == IF n >= 0 THEN n \div d ELSE -((-n) \div d)

\* draw_zones: the list of zones for a frame of the given width.
ZoneWidth(w, names) == w \div Len(names)

draw_zones(w, h, names) ==
    [k \in 1..Len(names) |->
        [x1 |-> (k - 1) * ZoneWidth(w, names),
         x2 |-> (k - 1) * ZoneWidth(w, names) + ZoneWidth(w, names),
         y1 |-> 0, y2 |-> h, name |-> names[k]]]

\* Mutant: the right bound of a zone is taken as exclusive.
InZoneHalfOpen(z, x) == z.x1 <= x /\ x < z.x2

InZone(z, x) == z.x1 <= x /\ x <= z.x2

RECURSIVE FindZoneFrom(_, _, _)
FindZoneFrom(zs, x, i) ==
    IF i > Len(zs) THEN None
    ELSE IF InZone(zs[i], x) THEN zs[i].name
    ELSE FindZoneFrom(zs, x, i + 1)

find_zone(zs, x) == FindZoneFrom(zs, x, 1)

\* Python truthiness of Optional[str].
Truthy(z) == z # None /\ z # ""

\* Mutant: a delta equal to the threshold counts as a tap.
IsDownwardLax(d) == d >= TAP_THRESHOLD

IsDownward(d) == d > TAP_THRESHOLD

\* Mutant: the cooldown is over as soon as COOLDOWN has elapsed.
CooldownOverLax(r) == r >= COOLDOWN

CooldownOver(r) == r > COOLDOWN

IsTap(zn, d, r) == Truthy(zn) /\ IsDownward(d) /\ CooldownOver(r)

\* Mutant: the new y is stored for every finger.
StorePrevYAll(prev, f, y) == [g \in DOMAIN prev |-> y]

\* Mutant: the previous y is not updated.
StorePrevYStale(prev, f, y) == prev

StorePrevY(prev, f, y) == [prev EXCEPT ![f] = y]

StoreTrigger(last, f, t) == [last EXCEPT ![f] = t]

\* Mutant: a visual of age PULSE_LIFETIME is kept.
AliveLax(v, t) == t - v.start <= PULSE_LIFETIME

Alive(v, t) == t - v.start < PULSE_LIFETIME

FadeFilter(vs, t) == SelectSeq(vs, LAMBDA v : Alive(v, t))

\* Mutant: the radius grows with the age of the visual.
RadiusGrowing(v, t) == PyInt(MAX_RADIUS * (t - v.start), PULSE_LIFETIME) + 1

Radius(v, t) == PyInt(MAX_RADIUS * (PULSE_LIFETIME - (t - v.start)), PULSE_LIFETIME) + 1

ClockReads(t, ticks, horizon) == {t + d : d \in ticks} \cap 0..horizon

-----------------------------------------------------------------------------
(* The frame loop of main *)

Init ==
    /\ clock = 0
    /\ prev_finger_y = [f \in Fingers |-> 0]
    /\ last_trigger_time = [f \in Fingers |-> 0]
    /\ active_visuals = <<>>
    /\ zone_names = ZONE_NAMES
    /\ width = 0 /\ height = 0
    /\ zones = <<>>
    /\ pc = "read"
    /\ idx = 0
    /\ finger = None
    /\ landmark = None
    /\ x_pixel = 0 /\ y_pixel = 0
    /\ zone_name = None
    /\ delta_y = 0 /\ recent = 0
    /\ played = FALSE
    /\ seen = {}
    /\ now = 0
    /\ radii = <<>>
    /\ retired = {}

LoopLocals == <<finger, landmark, x_pixel, y_pixel, zone_name, delta_y, recent, played>>

\* cap.read(), flip, draw_zones, hands.process: a hand is found.
ReadFrameHand ==
    /\ pc = "read"
    /\ \E s \in FrameShapes :
        /\ height' = s[1] /\ width' = s[2]
        /\ zones' = draw_zones(s[2], s[1], zone_names)
    /\ pc' = "fingers" /\ idx' = 1
    /\ UNCHANGED <<clock, prev_finger_y, last_trigger_time, active_visuals,
                   zone_names, LoopLocals, seen, now, radii, retired>>

\* cap.read(), flip, draw_zones, hands.process: no hand in the frame.
ReadFrameNoHand ==
    /\ pc = "read"
    /\ \E s \in FrameShapes :
        /\ height' = s[1] /\ width' = s[2]
        /\ zones' = draw_zones(s[2], s[1], zone_names)
    /\ pc' = "fade"
    /\ UNCHANGED <<clock, prev_finger_y, last_trigger_time, active_visuals,
                   zone_names, idx, LoopLocals, seen, now, radii, retired>>

\* One iteration of `for finger, tip_id in FINGER_TIP_IDS.items()`.
ProcessFinger(ticks, horizon) ==
    /\ pc = "fingers"
    /\ \E lx \in LandmarkXs, ly \in LandmarkYs, t1 \in ClockReads(clock, ticks, horizon) :
        LET f  == TrackedFingers[idx]
            xp == PyInt(lx * width, LandmarkScale)
            yp == PyInt(ly * height, LandmarkScale)
            zn == find_zone(zones, xp)
            d  == ly - prev_finger_y[f]
            r  == t1 - last_trigger_time[f]
        IN  /\ finger' = f
            /\ landmark' = [x |-> lx, y |-> ly]
            /\ x_pixel' = xp /\ y_pixel' = yp
            /\ zone_name' = zn
            /\ delta_y' = d
            /\ prev_finger_y' = StorePrevY(prev_finger_y, f, ly)
            /\ recent' = r
            /\ seen' = seen \cup {f}
            /\ IF IsTap(zn, d, r)
               THEN \E t2 \in ClockReads(t1, ticks, horizon) : \E t3 \in ClockReads(t2, ticks, horizon) :
                      /\ played' = TRUE
                      /\ last_trigger_time' = StoreTrigger(last_trigger_time, f, t2)
                      /\ active_visuals' = Append(active_visuals,
                             [x |-> xp, y |-> yp, color |-> f, start |-> t3])
                      /\ clock' = t3
               ELSE /\ played' = FALSE
                    /\ clock' = t1
                    /\ UNCHANGED <<last_trigger_time, active_visuals>>
    /\ IF idx < NumFingers
       THEN idx' = idx + 1 /\ pc' = "fingers"
       ELSE idx' = idx /\ pc' = "fade"
    /\ UNCHANGED <<zone_names, width, height, zones, now, radii, retired>>

\* `now = time.time()`, the filter of active_visuals, the circles drawn, and
\* cv2.waitKey returning any key but 'q': the loop goes on.
FadeVisuals(ticks, horizon) ==
    /\ pc = "fade"
    /\ \E t \in ClockReads(clock, ticks, horizon) :
        /\ clock' = t
        /\ now' = t
        /\ active_visuals' = FadeFilter(active_visuals, t)
        /\ radii' = [i \in 1..Len(FadeFilter(active_visuals, t)) |->
                        Radius(FadeFilter(active_visuals, t)[i], t)]
        /\ retired' = retired \cup
               {active_visuals[i] : i \in {j \in 1..Len(active_visuals) :
                                               ~Alive(active_visuals[j], t)}}
    /\ pc' = "read"
    \* the locals of the finger loop are not read after it: they are forgotten
    /\ finger' = None /\ landmark' = None /\ x_pixel' = 0 /\ y_pixel' = 0
    /\ zone_name' = None /\ delta_y' = 0 /\ recent' = 0 /\ played' = FALSE
    /\ idx' = 0
    /\ UNCHANGED <<prev_finger_y, last_trigger_time, zone_names, width, height,
                   zones, seen>>

\* The state once main has returned: its locals are gone.
Returned ==
    /\ clock' = clock
    /\ prev_finger_y' = [f \in Fingers |-> 0]
    /\ last_trigger_time' = [f \in Fingers |-> 0]
    /\ active_visuals' = <<>>
    /\ zone_names' = zone_names
    /\ width' = 0 /\ height' = 0 /\ zones' = <<>>
    /\ pc' = "done" /\ idx' = 0
    /\ finger' = None /\ landmark' = None /\ x_pixel' = 0 /\ y_pixel' = 0
    /\ zone_name' = None /\ delta_y' = 0 /\ recent' = 0 /\ played' = FALSE
    /\ seen' = {} /\ now' = 0 /\ radii' = <<>> /\ retired' = {}

\* cap.read() fails, or cv2.waitKey returned 'q' after the previous frame:
\* the loop is left and the finally block runs.
LeaveLoop ==
    /\ pc = "read"
    /\ Returned

Next ==
    \/ ReadFrameHand
    \/ ReadFrameNoHand
    \/ ProcessFinger(Ticks, MaxTime)
    \/ FadeVisuals(Ticks, MaxTime)
    \/ LeaveLoop

Spec == Init /\ [][Next]_vars

\* The same loop under a clock that stalls: it advances by more than COOLDOWN
\* between two reads, or not at all.
NextStall ==
    \/ ReadFrameHand
    \/ ReadFrameNoHand
    \/ ProcessFinger(StallTicks, MaxStallTime)
    \/ FadeVisuals(StallTicks, MaxStallTime)
    \/ LeaveLoop

SpecStall == Init /\ [][NextStall]_vars

-----------------------------------------------------------------------------
(* draw_zones and find_zone on their own: every width up to MaxWidth, every  *)
(* non-empty prefix of the zone names, every pixel from -1 to MaxWidth + 1.  *)

InitZones ==
    /\ clock = 0
    /\ prev_finger_y = [f \in Fingers |-> 0]
    /\ last_trigger_time = [f \in Fingers |-> 0]
    /\ active_visuals = <<>>
    /\ zone_names \in {SubSeq(ZONE_NAMES, 1, n) : n \in 1..Len(ZONE_NAMES)}
    /\ width \in 1..MaxWidth /\ height = 4
    /\ zones = <<>>
    /\ pc = "layout"
    /\ idx = 0
    /\ finger = None
    /\ landmark = None
    /\ x_pixel = 0 /\ y_pixel = 0
    /\ zone_name = None
    /\ delta_y = 0 /\ recent = 0
    /\ played = FALSE
    /\ seen = {}
    /\ now = 0
    /\ radii = <<>>
    /\ retired = {}

\* zones = draw_zones(frame, width, height, zone_names)
LayoutZones ==
    /\ pc = "layout"
    /\ zones' = draw_zones(width, height, zone_names)
    /\ pc' = "lookup"
    /\ UNCHANGED <<clock, prev_finger_y, last_trigger_time, active_visuals,
                   zone_names, width, height, idx, LoopLocals, seen, now, radii,
                   retired>>

\* zone_name = find_zone(zones, x_pixel)
LookupZone ==
    /\ pc \in {"lookup", "found"}
    /\ \E x \in -1..(MaxWidth + 1) :
        /\ x_pixel' = x
        /\ zone_name' = find_zone(zones, x)
    /\ pc' = "found"
    /\ UNCHANGED <<clock, prev_finger_y, last_trigger_time, active_visuals,
                   zone_names, width, height, zones, idx, finger, landmark,
                   y_pixel, delta_y, recent, played, seen, now, radii, retired>>

NextZones ==
    \/ LayoutZones
    \/ LookupZone

SpecZones == InitZones /\ [][NextZones]_vars

-----------------------------------------------------------------------------
(* Vocabulary of the properties *)

Range(q) == {q[i] : i \in 1..Len(q)}

\* The step is one iteration of the finger loop.
SampleStep == pc = "fingers" /\ pc' \in {"fingers", "fade"}

\* In a SampleStep: the new y minus the finger's previous y.
SampleDelta == landmark'.y - prev_finger_y[finger']

\* The state is the one right after an iteration of the finger loop.
AfterSample == pc \in {"fingers", "fade"} /\ finger # None

\* The state is the one right after the visuals were faded.
AfterFade == pc = "read"

PulsesOf(f) == Cardinality({i \in 1..Len(active_visuals) : active_visuals[i].color = f})

-----------------------------------------------------------------------------
\* C1: a tap of a finger that fired before at t0 = last_trigger_time[finger]
\* happens only at a clock read more than COOLDOWN after t0, and the trigger
\* time it stores is more than COOLDOWN after t0, whatever samples arrived in
\* between.
CooldownEnforced ==
    [][(SampleStep /\ played' /\ last_trigger_time[finger'] > 0) =>
          /\ recent' > COOLDOWN
          /\ clock >= last_trigger_time[finger']
          /\ last_trigger_time'[finger'] - last_trigger_time[finger'] > COOLDOWN]_vars

\* A sample inside a zone with delta above the threshold, exactly COOLDOWN
\* after the finger's previous tap, did not fire.
CooldownWitness ==
    /\ AfterSample
    /\ Truthy(zone_name) /\ delta_y > TAP_THRESHOLD
    /\ last_trigger_time[finger] > 0
    /\ recent = COOLDOWN
    /\ ~played

\* C2: a sample whose delta is at most TAP_THRESHOLD plays no sound, spawns no
\* visual and leaves every trigger time as it was.
ThresholdGate ==
    [][(SampleStep /\ SampleDelta <= TAP_THRESHOLD) =>
          /\ ~played'
          /\ active_visuals' = active_visuals
          /\ last_trigger_time' = last_trigger_time]_vars

\* A sample inside a zone, cooldown over, delta exactly TAP_THRESHOLD: no tap.
ThresholdWitness ==
    /\ AfterSample
    /\ Truthy(zone_name) /\ recent > COOLDOWN
    /\ delta_y = TAP_THRESHOLD
    /\ ~played

\* C3: a finger that has never fired (its trigger time is still the initial
\* one) fires on every sample inside a zone with delta above the threshold,
\* whatever the clock reads.
NeverFiredNeverBlocked ==
    ~(/\ AfterSample
      /\ Truthy(zone_name) /\ delta_y > TAP_THRESHOLD
      /\ last_trigger_time[finger] = 0
      /\ ~played)

\* C4: right after the visuals are faded at `now`, every active visual is
\* younger than PULSE_LIFETIME, and a visual the filter dropped is never
\* active again.
PulseLifetimeInv ==
    /\ AfterFade =>
          \A i \in 1..Len(active_visuals) :
              now - active_visuals[i].start < PULSE_LIFETIME
    /\ \A v \in retired :
          /\ v \notin Range(active_visuals)
          /\ AfterFade => now >= v.start + PULSE_LIFETIME

\* A visual was dropped at exactly the age PULSE_LIFETIME while another one
\* stayed active.
PulseLifetimeWitness ==
    /\ AfterFade
    /\ active_visuals # <<>>
    /\ \E v \in retired : now - v.start = PULSE_LIFETIME

\* C5: an iteration for one finger leaves the previous y and the trigger time
\* of every other finger as they were, and whether it fires is decided by that
\* finger's own sample, zone, previous y and trigger time.
FingerIndependence ==
    [][SampleStep =>
          /\ \A g \in Fingers \ {finger'} :
                /\ prev_finger_y'[g] = prev_finger_y[g]
                /\ last_trigger_time'[g] = last_trigger_time[g]
          /\ played' <=> (/\ Truthy(zone_name')
                          /\ SampleDelta > TAP_THRESHOLD
                          /\ recent' > COOLDOWN)
          /\ recent' >= clock - last_trigger_time[finger']]_vars

\* The second finger was sampled in a frame in which the first one fired, and
\* fired too although the first finger's tap was less than COOLDOWN ago.
IndependenceWitness ==
    /\ pc = "fade"
    /\ finger = TrackedFingers[2]
    /\ played
    /\ last_trigger_time[TrackedFingers[1]] > now
    /\ clock - last_trigger_time[TrackedFingers[1]] < COOLDOWN
    /\ prev_finger_y[TrackedFingers[1]] # prev_finger_y[TrackedFingers[2]]

\* C7: the zones are zone k = [k*(W \div N), (k+1)*(W \div N)] in name order,
\* adjacent zones share their boundary, the pixels of [0, W) in no zone are at
\* most W % N pixels at the right edge, and find_zone returns the first zone
\* in order whose inclusive range holds the pixel, None when no zone holds it.
ZoneTiling ==
    pc \in {"lookup", "found"} =>
        LET N == Len(zone_names)
            zw == width \div N
            Holds(k, x) == (k - 1) * zw <= x /\ x <= k * zw
            Covered(x) == \E k \in 1..N : Holds(k, x)
            Uncovered == {x \in 0..(width - 1) : ~Covered(x)}
        IN  /\ Len(zones) = N
            /\ \A k \in 1..N :
                  /\ zones[k].x1 = (k - 1) * zw
                  /\ zones[k].x2 = k * zw
                  /\ zones[k].name = zone_names[k]
            /\ \A k \in 1..(N - 1) : zones[k].x2 = zones[k + 1].x1
            /\ Cardinality(Uncovered) <= width % N
            /\ \A x \in Uncovered : x > N * zw
            /\ pc = "found" =>
                  IF Covered(x_pixel)
                  THEN \E k \in 1..N :
                          /\ Holds(k, x_pixel)
                          /\ \A j \in 1..(k - 1) : ~Holds(j, x_pixel)
                          /\ zone_name = zone_names[k]
                  ELSE zone_name = None

\* With a width the zone count does not divide, the pixel on the boundary of
\* the first two zones was looked up and resolved to the first zone.
ZoneTilingWitness ==
    /\ pc = "found"
    /\ Len(zone_names) >= 2
    /\ width % Len(zone_names) # 0
    /\ x_pixel > 0
    /\ x_pixel = zones[1].x2 /\ x_pixel = zones[2].x1
    /\ zone_name = zone_names[1]

\* C8: when the visuals are faded, every radius drawn is at least 1 and at
\* most the radius the same visual was drawn with at the previous fade, and
\* every visual that stays is one of the visuals held before, fields unchanged.
RadiusDecay ==
    [][(pc = "fade" /\ pc' = "read") =>
          /\ Len(radii') = Len(active_visuals')
          /\ \A i \in 1..Len(active_visuals') :
                /\ radii'[i] >= 1
                /\ radii'[i] <= MAX_RADIUS + 1
                /\ active_visuals'[i] \in Range(active_visuals)
                /\ \A j \in 1..Len(radii) :
                      active_visuals[j] = active_visuals'[i] => radii'[i] <= radii[j]]_vars

\* A visual that has aged was drawn with a radius below the initial one.
RadiusDecayWitness ==
    /\ AfterFade
    /\ \E i \in 1..Len(active_visuals) :
          /\ now > active_visuals[i].start
          /\ radii[i] < MAX_RADIUS + 1
          /\ radii[i] >= 1

PulsesBounded ==
    AfterFade =>
        /\ \A f \in Fingers : PulsesOf(f) <= 2
        /\ Len(active_visuals) <= 2 * NumFingers

====
